---- MODULE Spec2Model ----
(***************************************************************************)
(* SSG vs Match Demand (src/app.py): the planner calculations, the         *)
(* expected-demand table, the %MDP ratio, the pitch markings and the       *)
(* players auto-layout, as run by the Streamlit script on every            *)
(* interaction.                                                            *)
(*                                                                         *)
(* Numbers.  The script computes with Python ints and floats.  The model   *)
(* computes with exact rationals <<n, d>> (d > 0, lowest terms), so that   *)
(* 9.15, 40.32, area / players and the linspace steps are the values the   *)
(* expressions denote; float rounding is not modelled.                     *)
(***************************************************************************)
EXTENDS Integers, Sequences, FiniteSets

VARIABLES widgets, mdp, ssg, page, nruns, memo, call, done, result

vars == <<widgets, mdp, ssg, page, nruns, memo, call, done, result>>

appVars == <<widgets, mdp, ssg, page, nruns, memo>>

fnVars == <<call, done, result>>

(***************************************************************************)
(* Exact arithmetic                                                        *)
(***************************************************************************)
Abs(n) == IF n < 0 THEN -n ELSE n

RECURSIVE GCD(_, _)
GCD(a, b) == IF b = 0 THEN a ELSE GCD(b, a % b)

\* the number n / d, d # 0, in lowest terms with a positive denominator
Rat(n, d) ==
    LET s == IF d < 0 THEN -1 ELSE 1
        g == GCD(Abs(n), Abs(d))
    IN  <<(s * n) \div g, (s * d) \div g>>

R(n) == <<n, 1>>

RAdd(a, b) == Rat(a[1] * b[2] + b[1] * a[2], a[2] * b[2])

RSub(a, b) == Rat(a[1] * b[2] - b[1] * a[2], a[2] * b[2])

RMul(a, b) == Rat(a[1] * b[1], a[2] * b[2])

RDiv(a, b) == Rat(a[1] * b[2], a[2] * b[1])

RLt(a, b) == a[1] * b[2] < b[1] * a[2]

RLe(a, b) == a[1] * b[2] <= b[1] * a[2]

RMin(a, b) == IF RLe(a, b) THEN a ELSE b

RMin3(a, b, c) == RMin(RMin(a, b), c)

\* Python truthiness of a number: 0 and 0.0 are falsy
Truthy(a) == a[1] # 0

\* Optional[float]: None, or a number
None == [some |-> FALSE, v |-> R(0)]

Some(a) == [some |-> TRUE, v |-> a]

CeilDiv(a, b) == (a + b - 1) \div b

IMin(a, b) == IF a <= b THEN a ELSE b

IMax(a, b) == IF a >= b THEN a ELSE b

(***************************************************************************)
(* expected_demand                                                         *)
(***************************************************************************)
Keys == {"TD", "HSR", "SPRINT", "ACC", "DEC", "PL"}

\* variant: the band edges moved (small up to 85 included, medium open)
expected_demand_shifted(app) ==
    IF ~app.some \/ ~Truthy(app.v)
    THEN [k \in Keys |-> ""]
    ELSE LET small == RLe(app.v, R(85))
             medium == RLt(R(85), app.v) /\ RLt(app.v, R(120))
         IN  [k \in Keys |->
                CASE k = "TD" -> IF small \/ medium THEN "MED" ELSE "HIGH"
                  [] k \in {"HSR", "SPRINT"} ->
                        IF small THEN "LOW" ELSE IF medium THEN "MED" ELSE "HIGH"
                  [] OTHER ->
                        IF small THEN "HIGH" ELSE IF medium THEN "MED" ELSE "LOW"]

\* app is an Optional[float]; `not app` is true of None and of 0
expected_demand(app) ==
    IF ~app.some \/ ~Truthy(app.v)
    THEN [k \in Keys |-> ""]
    ELSE LET small == RLt(app.v, R(85))
             medium == RLe(R(85), app.v) /\ RLe(app.v, R(120))
         IN  [k \in Keys |->
                CASE k = "TD" -> IF small \/ medium THEN "MED" ELSE "HIGH"
                  [] k \in {"HSR", "SPRINT"} ->
                        IF small THEN "LOW" ELSE IF medium THEN "MED" ELSE "HIGH"
                  [] OTHER ->
                        IF small THEN "HIGH" ELSE IF medium THEN "MED" ELSE "LOW"]

(***************************************************************************)
(* Planner calculations                                                    *)
(***************************************************************************)
\* variant: no zero guard on players, rest left in seconds
Calculations_no_guard(w) ==
    LET area == w.length * w.width
    IN  [area |-> R(area),
         app |-> Rat(area, IMax(1, w.players)),
         total_work |-> R(w.sets * w.work),
         total_rest |-> R(w.sets * w.rest),
         total_session |-> RAdd(R(w.sets * w.work), R(w.sets * w.rest))]

Calculations(w) ==
    LET area == w.length * w.width
        app == IF w.players # 0 THEN Rat(area, w.players) ELSE R(0)
        total_work == w.sets * w.work
        total_rest == Rat(w.sets * w.rest, 60)
    IN  [area |-> R(area),
         app |-> app,
         total_work |-> R(total_work),
         total_rest |-> total_rest,
         total_session |-> RAdd(R(total_work), total_rest)]

(***************************************************************************)
(* pct (Quick %MDP tab)                                                    *)
(***************************************************************************)
\* variant: a zero denominator answered with the number 0
pct_zero(num, den) == IF Truthy(den) THEN Some(RDiv(num, den)) ELSE Some(R(0))

\* num / den if den else None; the except branch is not reached with numbers
pct(num, den) == IF Truthy(den) THEN Some(RDiv(num, den)) ELSE None

(***************************************************************************)
(* Pitch markings                                                          *)
(***************************************************************************)
pen_depth == Rat(165, 10)

pen_width == Rat(4032, 100)

goal_depth == Rat(55, 10)

goal_width == Rat(1832, 100)

spot_dist == R(11)

center_circle_r == Rat(915, 100)

\* variant: the radius clamped by the length alone
cc_r_length_only(length, width) == RMin(center_circle_r, Rat(length, 3))

cc_r(length, width) == RMin3(center_circle_r, Rat(length, 3), Rat(width, 3))

effective_pen_width(width) == RMin(pen_width, RMul(R(width), Rat(9, 10)))

effective_goal_width(width) == RMin(goal_width, RMul(R(width), Rat(6, 10)))

pen_y0(width) == RDiv(RSub(R(width), effective_pen_width(width)), R(2))

goal_y0(width) == RDiv(RSub(R(width), effective_goal_width(width)), R(2))

\* Rectangle((x, y), w, h): anchored at its lower-left corner
Rectangle(x, y, w, h) == [x |-> x, y |-> y, w |-> w, h |-> h]

\* the shapes the script adds to the axes, in the order it adds them
PitchMarkings(length, width) ==
    [pitch |-> Rectangle(R(0), R(0), R(length), R(width)),
     circle |-> [cx |-> Rat(length, 2), cy |-> Rat(width, 2),
                 r |-> cc_r(length, width)],
     pen |-> <<Rectangle(R(0), pen_y0(width), pen_depth,
                         effective_pen_width(width)),
               Rectangle(RSub(R(length), pen_depth), pen_y0(width), pen_depth,
                         effective_pen_width(width))>>,
     goal |-> <<Rectangle(R(0), goal_y0(width), goal_depth,
                          effective_goal_width(width)),
                Rectangle(RSub(R(length), goal_depth), goal_y0(width),
                          goal_depth, effective_goal_width(width))>>,
     spots |-> <<<<spot_dist, Rat(width, 2)>>,
                 <<RSub(R(length), spot_dist), Rat(width, 2)>>>>]

(***************************************************************************)
(* Players auto-layout                                                     *)
(***************************************************************************)
\* variant: samples shifted by one step, the last one past stop
linspace_past_stop(start, stop, num) ==
    IF num = 1
    THEN <<start>>
    ELSE LET step == RDiv(RSub(stop, start), R(num - 1))
         IN  [i \in 1..num |-> RAdd(start, RMul(R(i), step))]

\* np.linspace(start, stop, num): num samples, both ends included; a single
\* sample is start
linspace(start, stop, num) ==
    IF num = 1
    THEN <<start>>
    ELSE LET step == RDiv(RSub(stop, start), R(num - 1))
         IN  [i \in 1..num |-> RAdd(start, RMul(R(i - 1), step))]

\* variant: the layout drawn from two players on
layout_guard_two(n_players) == n_players >= 2

layout_guard(n_players) == n_players >= 1

per_row(n_players) == IMin(6, IMax(2, CeilDiv(n_players, 2)))

\* variant: the row count rounded down
rows_floor(n_players) == n_players \div per_row(n_players)

rows(n_players) == CeilDiv(n_players, per_row(n_players))

\* variant: the split rounded up
half_ceil(n_players) == CeilDiv(n_players, 2)

half(n_players) == n_players \div 2

\* [(x, y) for y in ys for x in xs]
Grid(xs, ys) ==
    [k \in 1..(Len(xs) * Len(ys)) |->
        <<xs[((k - 1) % Len(xs)) + 1], ys[((k - 1) \div Len(xs)) + 1]>>]

\* s[:n] and s[n:] for 0 <= n
Take(s, n) == SubSeq(s, 1, IMin(n, Len(s)))

Drop(s, n) == SubSeq(s, IMin(n, Len(s)) + 1, Len(s))

NoLayout ==
    [drawn |-> FALSE, per_row |-> 0, rows |-> 0, pts |-> <<>>,
     teamA |-> <<>>, teamB |-> <<>>, labels |-> <<>>]

\* teamA is the first scatter (pts[:half]), teamB the second (pts[half:]);
\* labels are the ax.text calls, <<text, x, y>> in call order
PlayersAutoLayout(players, length, width) ==
    LET n_players == players
    IN  IF layout_guard(n_players)
        THEN LET xs == linspace(RMul(R(length), Rat(1, 10)),
                                RMul(R(length), Rat(9, 10)), per_row(n_players))
                 ys == linspace(RMul(R(width), Rat(2, 10)),
                                RMul(R(width), Rat(8, 10)), rows(n_players))
                 pts == Take(Grid(xs, ys), n_players)
             IN  [drawn |-> TRUE,
                  per_row |-> per_row(n_players),
                  rows |-> rows(n_players),
                  pts |-> pts,
                  teamA |-> Take(pts, half(n_players)),
                  teamB |-> Drop(pts, half(n_players)),
                  labels |-> [i \in 1..Len(pts) |-> <<i, pts[i][1], pts[i][2]>>]]
        ELSE NoLayout

(***************************************************************************)
(* The script: one run renders both tabs from the widget values            *)
(***************************************************************************)
\* variant: the demand tags computed from the APP of the previous run
planner_tab_lagging(w) ==
    LET metrics == Calculations(w)
        shown == IF nruns = 0 THEN metrics ELSE page.planner.metrics
    IN  [metrics |-> metrics,
         exp |-> expected_demand(Some(shown.app)),
         markings |-> PitchMarkings(w.length, w.width),
         layout |-> PlayersAutoLayout(w.players, w.length, w.width)]

planner_tab(w) ==
    LET metrics == Calculations(w)
    IN  [metrics |-> metrics,
         exp |-> expected_demand(Some(metrics.app)),
         markings |-> PitchMarkings(w.length, w.width),
         layout |-> PlayersAutoLayout(w.players, w.length, w.width)]

QuickKeys == {"TD", "HMLD", "ACC", "DEC", "HSR", "PL"}

\* metrics: (label, pct(ssg_x, mdp_x)) for the six readings
quick_tab(m, s) == [k \in QuickKeys |-> pct(s[k], m[k])]

Script(w, m, s) == [planner |-> planner_tab(w), quick |-> quick_tab(m, s)]

(***************************************************************************)
(* Widgets: ranges and default values                                      *)
(***************************************************************************)
players_min == 2

players_max == 22

length_min == 10

length_max == 120

width_min == 10

width_max == 90

sets_min == 1

sets_max == 12

work_min == 1

work_max == 30

rest_min == 15

rest_max == 300

DefaultWidgets ==
    [players |-> 8, length |-> 30, width |-> 40, sets |-> 3, work |-> 3,
     rest |-> 90]

DefaultMdp ==
    [k \in QuickKeys |->
        CASE k = "TD" -> R(180)
          [] k = "HMLD" -> R(30)
          [] k = "ACC" -> Rat(9, 10)
          [] k = "DEC" -> Rat(8, 10)
          [] k = "HSR" -> Rat(35, 10)
          [] OTHER -> R(12)]

DefaultSsg ==
    [k \in QuickKeys |->
        CASE k = "TD" -> R(165)
          [] k = "HMLD" -> R(28)
          [] k = "ACC" -> Rat(11, 10)
          [] k = "DEC" -> R(1)
          [] k = "HSR" -> Rat(18, 10)
          [] OTHER -> R(13)]

\* values entered in the running application
MaxRuns == 3

PlayersEntered == {players_min, 8, players_max}

LengthEntered == {length_min, 30}

WidthEntered == {40, width_max}

SetsEntered == {sets_min, 3}

WorkEntered == {3, work_max}

RestEntered == {rest_min, 90}

MdpEntered(k) == {R(0), DefaultMdp[k]}

SsgEntered(k) == {R(0), DefaultSsg[k]}

(***************************************************************************)
(* The application: every interaction reruns the whole script              *)
(***************************************************************************)
Inputs == [widgets |-> widgets, mdp |-> mdp, ssg |-> ssg]

\* memo is a history variable: the inputs and the page of some earlier run, and
\* whether the inputs have differed from them at a run since
Rerun ==
    /\ nruns < MaxRuns
    /\ nruns' = nruns + 1
    /\ page' = Script(widgets', mdp', ssg')
    /\ memo' \in {[memo EXCEPT !.changed = @ \/ Inputs' # memo.inputs],
                  [inputs |-> Inputs, page |-> page, changed |-> Inputs' # Inputs]}
    /\ UNCHANGED fnVars

SetPlayers(v) ==
    /\ v # widgets.players
    /\ widgets' = [widgets EXCEPT !.players = v]
    /\ UNCHANGED <<mdp, ssg>>
    /\ Rerun

SetLength(v) ==
    /\ v # widgets.length
    /\ widgets' = [widgets EXCEPT !.length = v]
    /\ UNCHANGED <<mdp, ssg>>
    /\ Rerun

SetWidth(v) ==
    /\ v # widgets.width
    /\ widgets' = [widgets EXCEPT !.width = v]
    /\ UNCHANGED <<mdp, ssg>>
    /\ Rerun

SetSets(v) ==
    /\ v # widgets.sets
    /\ widgets' = [widgets EXCEPT !.sets = v]
    /\ UNCHANGED <<mdp, ssg>>
    /\ Rerun

SetWork(v) ==
    /\ v # widgets.work
    /\ widgets' = [widgets EXCEPT !.work = v]
    /\ UNCHANGED <<mdp, ssg>>
    /\ Rerun

SetRest(v) ==
    /\ v # widgets.rest
    /\ widgets' = [widgets EXCEPT !.rest = v]
    /\ UNCHANGED <<mdp, ssg>>
    /\ Rerun

SetMdp(k, v) ==
    /\ v # mdp[k]
    /\ mdp' = [mdp EXCEPT ![k] = v]
    /\ UNCHANGED <<widgets, ssg>>
    /\ Rerun

SetSsg(k, v) ==
    /\ v # ssg[k]
    /\ ssg' = [ssg EXCEPT ![k] = v]
    /\ UNCHANGED <<widgets, mdp>>
    /\ Rerun

\* a sidebar colour is picked: the script reruns on the same numbers
SetAppearance ==
    /\ UNCHANGED <<widgets, mdp, ssg>>
    /\ Rerun

NoCall == [fn |-> "none", args |-> <<>>]

Init ==
    /\ widgets = DefaultWidgets
    /\ mdp = DefaultMdp
    /\ ssg = DefaultSsg
    /\ nruns = 0
    /\ page = Script(widgets, mdp, ssg)
    /\ memo = [inputs |-> Inputs, page |-> page, changed |-> FALSE]
    /\ call = NoCall
    /\ done = FALSE
    /\ result = <<>>

Next ==
    \/ \E v \in PlayersEntered : SetPlayers(v)
    \/ \E v \in LengthEntered : SetLength(v)
    \/ \E v \in WidthEntered : SetWidth(v)
    \/ \E v \in SetsEntered : SetSets(v)
    \/ \E v \in WorkEntered : SetWork(v)
    \/ \E v \in RestEntered : SetRest(v)
    \/ \E k \in QuickKeys : \E v \in MdpEntered(k) : SetMdp(k, v)
    \/ \E k \in QuickKeys : \E v \in SsgEntered(k) : SetSsg(k, v)
    \/ SetAppearance

Spec == Init /\ [][Next]_vars

(***************************************************************************)
(* The computations as functions of their arguments.  The guards of the    *)
(* script (`if not app`, `if players`, `if den`, `if n_players >= 1`) cover *)
(* arguments the widgets never deliver, so the arguments are drawn from    *)
(* sets that reach past the widget ranges.                                 *)
(***************************************************************************)
MaxApp == 130

MaxN == 24

AppValues ==
    {None} \cup {Some(R(n)) : n \in 0..MaxApp}
           \cup {Some(Rat(n, 100)) : n \in {-500, 1, 8499, 8501, 11999, 12001}}

PctValues ==
    {R(0), R(1), R(12), R(13), R(28), R(30), R(165), R(180), R(-1),
     Rat(8, 10), Rat(9, 10), Rat(11, 10), Rat(18, 10), Rat(35, 10)}

CalcValues ==
    [players : {0, 1, players_min, 7, 8, players_max},
     length : {length_min, 30, length_max},
     width : {width_min, 40, width_max},
     sets : {sets_min, 3, sets_max},
     work : {work_min, 3, work_max},
     rest : {rest_min, 90, 100, rest_max}]

LayoutLengths == {length_min, 11, 30, length_max}

LayoutWidths == {width_min, 15, 40, width_max}

InitFn ==
    /\ widgets = DefaultWidgets
    /\ mdp = DefaultMdp
    /\ ssg = DefaultSsg
    /\ nruns = 0
    /\ page = Script(widgets, mdp, ssg)
    /\ memo = [inputs |-> Inputs, page |-> page, changed |-> FALSE]
    /\ done = FALSE
    /\ result = <<>>
    /\ \/ \E app \in AppValues :
             call = [fn |-> "expected_demand", args |-> <<app>>]
       \/ \E num \in PctValues : \E den \in PctValues :
             call = [fn |-> "pct", args |-> <<num, den>>]
       \/ \E w \in CalcValues :
             call = [fn |-> "calculations", args |-> <<w>>]
       \/ \E l \in length_min..length_max : \E w \in width_min..width_max :
             call = [fn |-> "markings", args |-> <<l, w>>]
       \/ \E n \in 0..MaxN : \E l \in LayoutLengths : \E w \in LayoutWidths :
             call = [fn |-> "layout", args |-> <<n, l, w>>]

Return(v) ==
    /\ ~done
    /\ done' = TRUE
    /\ result' = v
    /\ UNCHANGED <<call, appVars>>

CallExpectedDemand ==
    /\ call.fn = "expected_demand"
    /\ Return(expected_demand(call.args[1]))

CallPct ==
    /\ call.fn = "pct"
    /\ Return(pct(call.args[1], call.args[2]))

CallCalculations ==
    /\ call.fn = "calculations"
    /\ Return(Calculations(call.args[1]))

CallMarkings ==
    /\ call.fn = "markings"
    /\ Return(PitchMarkings(call.args[1], call.args[2]))

CallLayout ==
    /\ call.fn = "layout"
    /\ Return(PlayersAutoLayout(call.args[1], call.args[2], call.args[3]))

NextFn ==
    \/ CallExpectedDemand
    \/ CallPct
    \/ CallCalculations
    \/ CallMarkings
    \/ CallLayout

SpecFn == InitFn /\ [][NextFn]_vars

Returned(fn) == done /\ call.fn = fn

(***************************************************************************)
(* Claims                                                                  *)
(***************************************************************************)
AllTags(t) == [TD |-> t, HSR |-> t, SPRINT |-> t, ACC |-> t, DEC |-> t, PL |-> t]

SmallProfile ==
    [TD |-> "MED", HSR |-> "LOW", SPRINT |-> "LOW", ACC |-> "HIGH",
     DEC |-> "HIGH", PL |-> "HIGH"]

LargeProfile ==
    [TD |-> "HIGH", HSR |-> "HIGH", SPRINT |-> "HIGH", ACC |-> "LOW",
     DEC |-> "LOW", PL |-> "LOW"]

Falsy(app) == ~app.some \/ app.v = R(0)

\* C1: expected_demand maps None and 0 to the all-empty profile, a non-zero
\* app below 85 to {TD:MED, HSR:LOW, SPRINT:LOW, ACC:HIGH, DEC:HIGH, PL:HIGH},
\* 85 <= app <= 120 to MED everywhere, app > 120 to {TD:HIGH, HSR:HIGH,
\* SPRINT:HIGH, ACC:LOW, DEC:LOW, PL:LOW}; an empty tag appears only for None
\* or 0 and never beside a LOW/MED/HIGH tag.
C1_DemandTable ==
    Returned("expected_demand") =>
        LET app == call.args[1]
        IN  /\ DOMAIN result = Keys
            /\ Falsy(app) => result = AllTags("")
            /\ (~Falsy(app) /\ RLt(app.v, R(85))) => result = SmallProfile
            /\ (~Falsy(app) /\ RLe(R(85), app.v) /\ RLe(app.v, R(120)))
                  => result = AllTags("MED")
            /\ (~Falsy(app) /\ RLt(R(120), app.v)) => result = LargeProfile
            /\ (\E k \in Keys : result[k] = "")
                  => (Falsy(app) /\ \A k \in Keys : result[k] = "")

C1_Witness ==
    /\ Returned("expected_demand")
    /\ call.args[1] = Some(R(85))
    /\ result = AllTags("MED")

Example == [players |-> 8, length |-> 30, width |-> 40, sets |-> 3, work |-> 3,
            rest |-> 90]

\* C2: area = length*width; APP*players = area when players is non-zero and
\* APP = 0 when players = 0; total_work = sets*work; total_rest*60 =
\* sets*rest; total_session = total_work + total_rest, unrounded; the inputs
\* (30, 40, 8, 3, 3, 90) give 1200, 150, 9, 4.5 and 13.5.
C2_Metrics ==
    Returned("calculations") =>
        LET w == call.args[1]
        IN  /\ result.area = R(w.length * w.width)
            /\ w.players # 0 => RMul(result.app, R(w.players)) = result.area
            /\ w.players = 0 => result.app = R(0)
            /\ result.total_work = R(w.sets * w.work)
            /\ RMul(result.total_rest, R(60)) = R(w.sets * w.rest)
            /\ RSub(result.total_session, result.total_rest) = result.total_work
            /\ w = Example =>
                  /\ result.area = R(1200)
                  /\ result.app = R(150)
                  /\ result.total_work = R(9)
                  /\ result.total_rest = Rat(45, 10)
                  /\ result.total_session = Rat(135, 10)

C2_Witness ==
    /\ Returned("calculations")
    /\ call.args[1] = Example
    /\ result.app = R(150)
    /\ result.total_session = Rat(135, 10)

\* C3: pct returns None exactly when the denominator is zero, and otherwise
\* the unclamped quotient (result*den = num), which is the number 0, not None,
\* when the numerator is 0; pct(165, 180) = 165/180.
C3_Ratio ==
    Returned("pct") =>
        LET num == call.args[1]
            den == call.args[2]
        IN  /\ (result = None) <=> (den = R(0))
            /\ den # R(0) => (result.some /\ RMul(result.v, den) = num)
            /\ (num = R(0) /\ den # R(0)) => (result = Some(R(0)) /\ result # None)
            /\ (num = R(165) /\ den = R(180)) => result = Some(Rat(165, 180))

C3_Witness ==
    /\ Returned("pct")
    /\ call.args[1] = R(165)
    /\ call.args[2] = R(0)
    /\ result = None

InWidgetRange(n) == players_min <= n /\ n <= players_max

\* row and column of the k-th generated point in a grid of width p
RowOf(k, p) == (k - 1) \div p

ColOf(k, p) == (k - 1) % p

\* C4: for 2 <= N <= 22, per_row is ceil(N/2) held within 2..6, rows is
\* ceil(N/per_row), per_row*rows >= N, exactly N markers are kept, in
\* row-major order (rows in order, each row left to right), and the marker at
\* position i carries label i; N = 8 gives per_row = 4, rows = 2, 8 points.
C4_Layout ==
    (Returned("layout") /\ InWidgetRange(call.args[1])) =>
        LET N == call.args[1]
            p == result.per_row
            r == result.rows
            c == CHOOSE c \in 0..N : 2 * c >= N /\ 2 * (c - 1) < N
        IN  /\ p = (IF c < 2 THEN 2 ELSE IF c > 6 THEN 6 ELSE c)
            /\ r * p >= N /\ (r - 1) * p < N
            /\ Len(result.pts) = N
            /\ Len(result.labels) = N
            /\ \A i \in 1..N :
                  /\ result.labels[i][1] = i
                  /\ <<result.labels[i][2], result.labels[i][3]>> = result.pts[i]
            /\ \A i, j \in 1..N :
                  /\ RowOf(i, p) = RowOf(j, p) => result.pts[i][2] = result.pts[j][2]
                  /\ RowOf(i, p) < RowOf(j, p)
                        => RLt(result.pts[i][2], result.pts[j][2])
                  /\ ColOf(i, p) = ColOf(j, p) => result.pts[i][1] = result.pts[j][1]
                  /\ ColOf(i, p) < ColOf(j, p)
                        => RLt(result.pts[i][1], result.pts[j][1])
            /\ N = 8 => (p = 4 /\ r = 2 /\ Len(result.pts) = 8)

C4_Witness ==
    /\ Returned("layout")
    /\ call.args[1] = 8
    /\ result.per_row = 4
    /\ result.rows = 2
    /\ Len(result.pts) = 8

\* C5, as stated: for N >= 2 the points are split at N // 2, Team A before
\* the split and Team B after it, every point in exactly one team, and Team A
\* has one marker more than Team B when N is odd.
C5_Original ==
    (Returned("layout") /\ call.args[1] >= 2) =>
        LET N == call.args[1]
        IN  /\ result.teamA = Take(result.pts, N \div 2)
            /\ result.teamA \o result.teamB = result.pts
            /\ N % 2 = 1 => Len(result.teamA) = Len(result.teamB) + 1

\* C5, amended: for N >= 2 the points are split at N // 2, Team A before the
\* split and Team B after it, every point in exactly one team; the teams are
\* equal when N is even and Team B has one marker more than Team A when N is
\* odd.
C5_TeamSplit ==
    (Returned("layout") /\ call.args[1] >= 2) =>
        LET N == call.args[1]
            a == Len(result.teamA)
            b == Len(result.teamB)
        IN  /\ 2 * a <= N /\ N < 2 * a + 2
            /\ result.teamA \o result.teamB = result.pts
            /\ a + b = N
            /\ N % 2 = 0 => a = b
            /\ N % 2 = 1 => b = a + 1

C5_Witness ==
    /\ Returned("layout")
    /\ call.args[1] = 9
    /\ Len(result.teamA) = 4
    /\ Len(result.teamB) = 5

C7_CentreCircle ==
    Returned("markings") =>
        LET l == call.args[1]
            w == call.args[2]
            c == result.circle
            bounds == {Rat(915, 100), Rat(l, 3), Rat(w, 3)}
        IN  /\ c.r \in bounds
            /\ \A b \in bounds : RLe(c.r, b)
            /\ c.cx = Rat(l, 2) /\ c.cy = Rat(w, 2)
            /\ RLe(R(0), RSub(c.cx, c.r)) /\ RLe(RAdd(c.cx, c.r), R(l))
            /\ RLe(R(0), RSub(c.cy, c.r)) /\ RLe(RAdd(c.cy, c.r), R(w))
            /\ (l = 10 /\ w = 10) => (RLe(c.r, Rat(10, 3)) /\ c.r # Rat(915, 100))

C7_Witness ==
    /\ Returned("markings")
    /\ call.args[1] = 10
    /\ call.args[2] = 10
    /\ result.circle.r = Rat(10, 3)

Within(rect, l, w) ==
    /\ RLe(R(0), rect.x) /\ RLe(RAdd(rect.x, rect.w), R(l))
    /\ RLe(R(0), rect.y) /\ RLe(RAdd(rect.y, rect.h), R(w))

\* a box whose lower Y bound is (width - its height) / 2
Centred(rect, w) == RAdd(RMul(R(2), rect.y), rect.h) = R(w)

\* C8: for every pitch of the widget range (length 10..120, width 10..90)
\* both penalty boxes, both six-yard boxes and both penalty spots lie within
\* [0, length] x [0, width], each box vertically centred, with heights
\* min(40.32, 0.9*width) and min(18.32, 0.6*width).
C8_MarkingsFit ==
    Returned("markings") =>
        LET l == call.args[1]
            w == call.args[2]
        IN  /\ \A i \in 1..2 :
                  /\ Within(result.pen[i], l, w)
                  /\ Within(result.goal[i], l, w)
                  /\ Centred(result.pen[i], w)
                  /\ Centred(result.goal[i], w)
                  /\ result.pen[i].h = RMin(Rat(4032, 100), Rat(9 * w, 10))
                  /\ result.goal[i].h = RMin(Rat(1832, 100), Rat(6 * w, 10))
                  /\ RLe(R(0), result.spots[i][1])
                  /\ RLe(result.spots[i][1], R(l))
                  /\ RLe(R(0), result.spots[i][2])
                  /\ RLe(result.spots[i][2], R(w))

C10_MarkersInside ==
    (Returned("layout") /\ InWidgetRange(call.args[1])) =>
        LET l == call.args[2]
            w == call.args[3]
            pts == result.pts
        IN  /\ \A i \in 1..Len(pts) :
                  /\ RLe(Rat(l, 10), pts[i][1]) /\ RLe(pts[i][1], Rat(9 * l, 10))
                  /\ RLe(Rat(2 * w, 10), pts[i][2]) /\ RLe(pts[i][2], Rat(8 * w, 10))
                  /\ RLt(R(0), pts[i][1]) /\ RLt(pts[i][1], R(l))
                  /\ RLt(R(0), pts[i][2]) /\ RLt(pts[i][2], R(w))
                  /\ result.rows = 1 => pts[i][2] = Rat(2 * w, 10)
            /\ \A i, j \in 1..Len(pts) : i # j => pts[i] # pts[j]

C10_Witness ==
    /\ Returned("layout")
    /\ call.args[1] = 2
    /\ result.rows = 1
    /\ Len(result.pts) = 2
    /\ result.pts[2] = <<Rat(9 * call.args[2], 10), Rat(2 * call.args[3], 10)>>

====
